---- MODULE Spec2Model ----
(***************************************************************************)
(* Call signalling of the Chat component (src/src/chat.tsx).               *)
(*                                                                         *)
(* The file holds two variants of the component (lines 1-355 and 357-697). *)
(* They differ in the guard of the call buttons and in the addressee of    *)
(* group_call_answer; `variant` selects one and never changes.             *)
(*                                                                         *)
(* Every user runs one instance of the component.  An async function is a  *)
(* task: a record holding its position (the await it is suspended at) and  *)
(* the values its closure captured.  One action runs a handler from its    *)
(* entry, or from the await it resumes at, to the next await or its end.   *)
(*                                                                         *)
(* RTCPeerConnection and MediaStream objects live in the tables `pcs` and  *)
(* `streams`; refs hold indices into them, 0 standing for null/undefined.  *)
(* An object replaced in a ref stays in its table, as it stays alive in    *)
(* the browser until closed or stopped.                                    *)
(***************************************************************************)
EXTENDS Naturals, Sequences, FiniteSets

Users == {"A", "B", "C"}

\* Iteration order of the presence list (users.filter keeps list order).
UserOrder == <<"A", "B", "C">>

\* Bounds of the model.  PairPcs, IcePcs, GroupPcs, MixedPcs, LatePcs, RingPcs, LostPcs and
\* CameraPcs bound the peer
\* connections created in a run of the specification they belong to,
\* MaxStreams the media streams acquired, MaxCands the candidates one
\* connection gathers, MaxTasks the async functions one user has in flight.
PairPcs == 3
IcePcs == 2
GroupPcs == 4
MixedPcs == 3
LatePcs == 2
RingPcs == 2
LostPcs == 2
CameraPcs == 2
MaxStreams == 3
MaxCands == 1
MaxTasks == 1

VARIABLES
    variant,          \* 1: lines 1-355, 2: lines 357-697
    registered,       \* registered[u]: the chat box is rendered for u
    users,            \* users[u]: the presence list u holds
    joinedGroup,      \* joinedGroup[u]: "" or the group u joined
    isFrontCamera,    \* isFrontCamera[u]
    inCall,           \* inCall[u]
    incomingCall,     \* incomingCall[u]: NoCall or [from, offer]
    ringtone,         \* ringtone[u]: the ringtone audio element is playing
    peerConnections,  \* peerConnections[u][peerId]: index into pcs, 0 = absent
    localStream,      \* localStream[u]: index into streams, 0 = null
    pcs,              \* every RTCPeerConnection created so far
    streams,          \* every MediaStream acquired so far
    tasks,            \* tasks[u]: the suspended async functions of u
    inbox,            \* inbox[u]: events the server has relayed to u, in order
    mediaAllowed,     \* mediaAllowed[u]: the browser of u grants the capture
    sent,             \* the events emitted by the last step
    last,             \* the handler the last step ran, and its user
    maxPcs            \* the bound on Len(pcs) of the specification run

vars == <<variant, registered, users, joinedGroup, isFrontCamera, inCall, incomingCall,
          ringtone, peerConnections, localStream, pcs, streams, tasks,
          inbox, mediaAllowed, sent, last, maxPcs>>

NoCall == [from |-> "", offer |-> 0]

NoLinks == [p \in Users |-> 0]

\* A signalling event.  desc: the peer connection whose description the
\* payload carries (offer / answer), cand: the candidate number, 0 = none.
Msg(ev, from, to, desc, cand) ==
    [ev |-> ev, from |-> from, to |-> to, desc |-> desc, cand |-> cand]

\* torn records that endCallCleanup ran while the function was suspended
\* (the code keeps no such mark); stream is the `stream` switchCamera holds
\* across its awaits.
Task(op, at, pc, peer, offer, to, rest) ==
    [op |-> op, at |-> at, pc |-> pc, peer |-> peer, offer |-> offer,
     to |-> to, rest |-> rest, torn |-> FALSE, stream |-> 0]

-----------------------------------------------------------------------------
\* Sequence helpers.

RECURSIVE FilterSeq(_, _)
FilterSeq(s, keep) ==
    IF s = <<>> THEN <<>>
    ELSE IF Head(s) \in keep THEN <<Head(s)>> \o FilterSeq(Tail(s), keep)
         ELSE FilterSeq(Tail(s), keep)

RemoveAt(s, i) == [j \in 1..(Len(s) - 1) |-> IF j < i THEN s[j] ELSE s[j + 1]]

-----------------------------------------------------------------------------
\* RTCPeerConnection.

\* signalingState of a connection, from the descriptions applied to it.
SignalingState(pc) ==
    IF pc.closed THEN "closed"
    ELSE IF pc.local = "offer" /\ pc.remote = 0 THEN "have-local-offer"
    ELSE IF pc.local = "none" /\ pc.remote # 0 THEN "have-remote-offer"
    ELSE "stable"

\* new RTCPeerConnection(servers) with the local tracks added.  kind (the
\* call the connection was created for) and declined (the callee declined
\* its offer) are records of the history; the code keeps neither.
NewPc(u, peerId, kind) ==
    [owner |-> u, peer |-> peerId, kind |-> kind, closed |-> FALSE,
     tracks |-> localStream[u], local |-> "none", remote |-> 0,
     candidates |-> <<>>, gathering |-> FALSE, gathered |-> 0,
     failed |-> FALSE, declined |-> FALSE]

\* pc.setRemoteDescription(answer): applied in have-local-offer, rejected
\* (InvalidStateError) in any other signalling state.
SetRemoteAnswer(pc, desc) ==
    IF SignalingState(pc) = "have-local-offer"
    THEN [pc EXCEPT !.remote = desc]
    ELSE pc

\* pc.setRemoteDescription(offer) on a connection just created.
SetRemoteOffer(pc, desc) == [pc EXCEPT !.remote = desc]

\* pc.addIceCandidate(candidate): rejected while the connection has no
\* remote description, or is closed; the candidate is then gone.
AddIceCandidate(pc, c) ==
    IF pc.closed \/ pc.remote = 0 THEN pc
    ELSE [pc EXCEPT !.candidates = Append(@, c)]

-----------------------------------------------------------------------------
\* The signalling server: an event with an addressee goes to that user,
\* end_call (which carries none) to every other registered user.

Recipients(m) ==
    IF m.ev = "end_call" THEN {v \in Users : registered[v] /\ v # m.from}
    ELSE {v \in Users : registered[v] /\ v = m.to}

RECURSIVE Relay(_, _)
Relay(box, ms) ==
    IF ms = <<>> THEN box
    ELSE Relay([v \in Users |->
                   IF v \in Recipients(Head(ms))
                   THEN Append(box[v], Head(ms)) ELSE box[v]],
               Tail(ms))

-----------------------------------------------------------------------------
\* Pieces of the component.

\* createPeerConnection(peerId): the new connection's index.
NewPcId == Len(pcs) + 1

\* endCallCleanup without pc.close(): the connections stay open.
CleanupPcsLeftOpen(u) == pcs

\* endCallCleanup, the peer connections: every connection held in
\* peerConnections.current is closed.
CleanupPcs(u) ==
    [i \in 1..Len(pcs) |->
        IF \E p \in Users : peerConnections[u][p] = i
        THEN [pcs[i] EXCEPT !.closed = TRUE] ELSE pcs[i]]

\* endCallCleanup, the capture: the tracks of localStream.current stop.
CleanupStreams(u) ==
    [i \in 1..Len(streams) |->
        IF localStream[u] = i
        THEN [streams[i] EXCEPT !.stopped = TRUE] ELSE streams[i]]

\* A task suspended on an operation of a connection that endCallCleanup
\* closes never resumes: the operation's promise is not settled.  The other
\* tasks stay suspended.
CleanupTasks(u) ==
    LET closing == {peerConnections[u][p] : p \in Users} \ {0}
        left == SelectSeq(tasks[u], LAMBDA t : t.pc \notin closing)
    IN  [i \in 1..Len(left) |-> [left[i] EXCEPT !.torn = TRUE]]

\* endCall emitting one end_call for each link, addressed to its peer.
EndCallEmitsPerLink(u) ==
    [k \in 1..Len(FilterSeq(UserOrder, {p \in Users : peerConnections[u][p] # 0})) |->
        Msg("end_call", u,
            FilterSeq(UserOrder, {p \in Users : peerConnections[u][p] # 0})[k],
            0, 0)]

\* endCall: the events it emits.
EndCallEmits(u) == <<Msg("end_call", u, "", 0, 0)>>

\* declineCall: the events it emits.
DeclineEmits(u) == <<Msg("decline_call", u, incomingCall[u].from, 0, 0)>>

\* group_call_offer handler: the addressee of its group_call_answer.
GroupAnswerTo(t) == IF variant = 1 THEN t.to ELSE t.peer

\* startGroupCall: users.filter(u => u !== username).
GroupMembers(u) == FilterSeq(UserOrder, users[u] \ {u})

\* Bounds of the model: the connections and streams the tasks in flight
\* will still create are counted against MaxPcs and MaxStreams.
AllTasks == tasks["A"] \o tasks["B"] \o tasks["C"]

RECURSIVE ReservedPcs(_)
ReservedPcs(ts) ==
    IF ts = <<>> THEN 0
    ELSE (IF Head(ts).op = "startGroupCall" THEN Len(Head(ts).rest)
          ELSE IF Head(ts).op = "switchCamera" THEN 0
          ELSE IF Head(ts).at \in {"getUserMedia", "play"} THEN 1 ELSE 0)
         + ReservedPcs(Tail(ts))

ReservedStreams ==
    Len(SelectSeq(AllTasks, LAMBDA t : t.at = "getUserMedia"))

Room(u, nPcs) ==
    /\ Len(tasks[u]) < MaxTasks
    /\ Len(pcs) + ReservedPcs(AllTasks) + nPcs <= maxPcs
    /\ Len(streams) + ReservedStreams + 1 <= MaxStreams

-----------------------------------------------------------------------------
\* The state once the users of `online` have registered and hold the
\* presence list, those of `members` having joined group G.
Start(online, members, bound) ==
    /\ registered = [u \in Users |-> u \in online]
    /\ users = [u \in Users |-> IF u \in online THEN online ELSE {}]
    /\ joinedGroup = [u \in Users |-> IF u \in members THEN "G" ELSE ""]
    /\ isFrontCamera = [u \in Users |-> TRUE]
    /\ inCall = [u \in Users |-> FALSE]
    /\ incomingCall = [u \in Users |-> NoCall]
    /\ ringtone = [u \in Users |-> FALSE]
    /\ peerConnections = [u \in Users |-> NoLinks]
    /\ localStream = [u \in Users |-> 0]
    /\ pcs = <<>>
    /\ streams = <<>>
    /\ tasks = [u \in Users |-> <<>>]
    /\ inbox = [u \in Users |-> <<>>]
    /\ sent = <<>>
    /\ last = [op |-> "init", by |-> ""]
    /\ maxPcs = bound

\* A and B are online, nobody has joined a group, the capture is granted.
Init ==
    /\ variant \in {1, 2}
    /\ mediaAllowed = [u \in Users |-> TRUE]
    /\ Start({"A", "B"}, {}, PairPcs)

\* What no handler of a call writes.
Setting == <<variant, registered, users, mediaAllowed, maxPcs>>

Profile == <<Setting, isFrontCamera>>

\* A handler that emits: the server relays what it emitted.
Emit(ms) ==
    /\ sent' = ms
    /\ inbox' = Relay(inbox, ms)

\* A handler that takes the event at the head of u's inbox.
Takes(u, ev) ==
    /\ registered[u]
    /\ inbox[u] # <<>>
    /\ Head(inbox[u]).ev = ev

Taken(u) ==
    /\ inbox' = [inbox EXCEPT ![u] = Tail(@)]
    /\ sent' = <<>>

\* The task starts: setupMedia calls getUserMedia and suspends.
Starts(u, t) == tasks' = [tasks EXCEPT ![u] = Append(@, t)]

Ends(u, i) == tasks' = [tasks EXCEPT ![u] = RemoveAt(@, i)]

Moves(u, i, t) == tasks' = [tasks EXCEPT ![u][i] = t]

\* endCallCleanup (lines 230-239).
EndCallCleanup(u) ==
    /\ pcs' = CleanupPcs(u)
    /\ peerConnections' = [peerConnections EXCEPT ![u] = NoLinks]
    /\ streams' = CleanupStreams(u)
    /\ localStream' = [localStream EXCEPT ![u] = 0]
    /\ inCall' = [inCall EXCEPT ![u] = FALSE]
    /\ incomingCall' = [incomingCall EXCEPT ![u] = NoCall]
    /\ tasks' = [tasks EXCEPT ![u] = CleanupTasks(u)]

-----------------------------------------------------------------------------
\* Commands of the user.

\* The Private Call button is enabled (lines 284, 634).
PrivateCallEnabled(u, target) ==
    /\ target \in users[u] \ {u}
    /\ variant = 2 => ~inCall[u]

\* startPrivateCall up to its first await (lines 174-176).
StartPrivateCall(u, target) ==
    /\ registered[u]
    /\ PrivateCallEnabled(u, target)
    /\ Room(u, 1)
    /\ Starts(u, Task("startPrivateCall", "getUserMedia", 0, target, 0, "", <<>>))
    /\ sent' = <<>>
    /\ last' = [op |-> "startPrivateCall", by |-> u]
    /\ UNCHANGED <<Profile, joinedGroup, inCall, incomingCall, ringtone,
                   peerConnections, localStream, pcs, streams, inbox>>

\* answerCall up to its first await (lines 187-190); the closure holds the
\* incomingCall of the render the button belongs to.
AnswerCall(u) ==
    /\ registered[u]
    /\ incomingCall[u] # NoCall
    /\ Room(u, 1)
    /\ ringtone' = [ringtone EXCEPT ![u] = FALSE]
    /\ Starts(u, Task("answerCall", "getUserMedia", 0, incomingCall[u].from,
                      incomingCall[u].offer, "", <<>>))
    /\ sent' = <<>>
    /\ last' = [op |-> "answerCall", by |-> u]
    /\ UNCHANGED <<Profile, joinedGroup, inCall, incomingCall,
                   peerConnections, localStream, pcs, streams, inbox>>

\* declineCall (lines 200-206).
DeclineCall(u) ==
    /\ registered[u]
    /\ incomingCall[u] # NoCall
    /\ Emit(DeclineEmits(u))
    /\ ringtone' = [ringtone EXCEPT ![u] = FALSE]
    /\ incomingCall' = [incomingCall EXCEPT ![u] = NoCall]
    /\ pcs' = [pcs EXCEPT ![incomingCall[u].offer].declined = TRUE]
    /\ last' = [op |-> "declineCall", by |-> u]
    /\ UNCHANGED <<Profile, joinedGroup, inCall, peerConnections,
                   localStream, streams, tasks>>

\* The Start Group Call button is enabled (lines 295, 641).
GroupCallEnabled(u) ==
    /\ joinedGroup[u] # ""
    /\ variant = 2 => ~inCall[u]

\* startGroupCall up to its first await (lines 208-210).
StartGroupCall(u) ==
    /\ registered[u]
    /\ GroupCallEnabled(u)
    /\ Room(u, Len(GroupMembers(u)))
    /\ Starts(u, Task("startGroupCall", "getUserMedia", 0, "", 0, "",
                      GroupMembers(u)))
    /\ sent' = <<>>
    /\ last' = [op |-> "startGroupCall", by |-> u]
    /\ UNCHANGED <<Profile, joinedGroup, inCall, incomingCall, ringtone,
                   peerConnections, localStream, pcs, streams, inbox>>

\* endCall (lines 225-228); the button is rendered while inCall.
EndCall(u) ==
    /\ registered[u]
    /\ inCall[u]
    /\ Emit(EndCallEmits(u))
    /\ EndCallCleanup(u)
    /\ last' = [op |-> "endCall", by |-> u]
    /\ UNCHANGED <<Profile, joinedGroup, ringtone>>

\* joinGroup (lines 156-162).
JoinGroup(u) ==
    /\ registered[u]
    /\ joinedGroup[u] = ""
    /\ joinedGroup' = [joinedGroup EXCEPT ![u] = "G"]
    /\ Emit(<<Msg("join_group", u, "", 0, 0)>>)
    /\ last' = [op |-> "joinGroup", by |-> u]
    /\ UNCHANGED <<Profile, inCall, incomingCall, ringtone, peerConnections,
                   localStream, pcs, streams, tasks>>

\* switchCamera up to its first await (lines 241-246); the button is
\* rendered while inCall (lines 323-328, 643).
SwitchCamera(u) ==
    /\ registered[u]
    /\ inCall[u]
    /\ isFrontCamera' = [isFrontCamera EXCEPT ![u] = ~@]
    /\ IF localStream[u] = 0
       THEN UNCHANGED <<streams, tasks>>
       ELSE /\ Room(u, 0)
            /\ streams' = CleanupStreams(u)
            /\ Starts(u, Task("switchCamera", "getUserMedia", 0, "", 0, "", <<>>))
    /\ sent' = <<>>
    /\ last' = [op |-> "switchCamera", by |-> u]
    /\ UNCHANGED <<Setting, joinedGroup, inCall, incomingCall, ringtone,
                   peerConnections, localStream, pcs, inbox>>

-----------------------------------------------------------------------------
\* Resumptions of the async functions.

Suspended(u, i, at) ==
    /\ registered[u]
    /\ i \in 1..Len(tasks[u])
    /\ tasks[u][i].at = at

\* createPeerConnection(peerId) (lines 118-146): the connection is stored
\* under peerId, replacing whatever was stored there.
CreatePeerConnection(u, peerId, pc) ==
    /\ pcs' = Append(pcs, pc)
    /\ peerConnections' = [peerConnections EXCEPT ![u][peerId] = NewPcId]

\* startGroupCall: the body of its loop up to createOffer (lines 213-215),
\* or the end of the function once every member has had an offer.
NextMember(u, i, t) ==
    IF t.rest = <<>>
    THEN /\ Ends(u, i)
         /\ UNCHANGED <<pcs, peerConnections>>
    ELSE /\ CreatePeerConnection(u, Head(t.rest), NewPc(u, Head(t.rest), "group"))
         /\ Moves(u, i, [t EXCEPT !.at = "createOffer", !.pc = NewPcId,
                                  !.peer = Head(t.rest), !.rest = Tail(t.rest)])

\* switchCamera without its replaceTrack loop.
ReplaceTracksSkipped(u, stream) == pcs

\* switchCamera, lines 258-263: the video sender of every connection in
\* peerConnections.current gets the track of the new stream; a connection
\* created without a capture has no sender.
ReplaceTracks(u, stream) ==
    [x \in 1..Len(pcs) |->
        IF (\E p \in Users : peerConnections[u][p] = x) /\ pcs[x].tracks # 0
        THEN [pcs[x] EXCEPT !.tracks = stream] ELSE pcs[x]]

\* What follows `await setupMedia()`, or the play() of switchCamera, up to
\* the next await.
AfterSetupMedia(u, i) ==
    LET t == tasks[u][i] IN
    /\ sent' = <<>>
    /\ UNCHANGED <<inbox, incomingCall>>
    /\ CASE t.op = "startPrivateCall" ->
              /\ CreatePeerConnection(u, t.peer, NewPc(u, t.peer, "private"))
              /\ Moves(u, i, [t EXCEPT !.at = "createOffer", !.pc = NewPcId])
              /\ UNCHANGED inCall
         [] t.op = "answerCall" ->
              /\ CreatePeerConnection(u, t.peer,
                     SetRemoteOffer(NewPc(u, t.peer, "private"), t.offer))
              /\ Moves(u, i, [t EXCEPT !.at = "setRemoteDescription",
                                       !.pc = NewPcId])
              /\ UNCHANGED inCall
         [] t.op = "group_call_offer" ->
              /\ CreatePeerConnection(u, t.peer,
                     SetRemoteOffer(NewPc(u, t.peer, "group"), t.offer))
              /\ Moves(u, i, [t EXCEPT !.at = "setRemoteDescription",
                                       !.pc = NewPcId])
              /\ UNCHANGED inCall
         [] t.op = "startGroupCall" ->
              /\ inCall' = [inCall EXCEPT ![u] = TRUE]
              /\ NextMember(u, i, t)
         [] t.op = "switchCamera" ->
              \* lines 258-263; play() has rejected, and the function ended
              \* there, if endCallCleanup reset srcObject meanwhile (line 238)
              /\ pcs' = IF t.torn THEN pcs ELSE ReplaceTracks(u, t.stream)
              /\ Ends(u, i)
              /\ UNCHANGED <<inCall, peerConnections>>

\* setupMedia: getUserMedia resolves (lines 102-110) and the stream is
\* stored, or it rejects and the catch block returns (lines 112-115).
\* switchCamera: the same call at lines 246-255, outside any try block.
GetUserMediaSettles(u, i) ==
    /\ Suspended(u, i, "getUserMedia")
    /\ last' = [op |-> "getUserMedia", by |-> u, fn |-> tasks[u][i].op]
    /\ UNCHANGED <<Profile, joinedGroup, ringtone>>
    /\ IF mediaAllowed[u]
       THEN /\ streams' = Append(streams, [owner |-> u, stopped |-> FALSE])
            /\ localStream' = [localStream EXCEPT ![u] = Len(streams) + 1]
            /\ Moves(u, i, [tasks[u][i] EXCEPT
                                !.at = "play",
                                !.stream = IF tasks[u][i].op = "switchCamera"
                                           THEN Len(streams) + 1 ELSE 0])
            /\ sent' = <<>>
            /\ UNCHANGED <<inCall, incomingCall, peerConnections, pcs, inbox>>
       ELSE IF tasks[u][i].op = "switchCamera"
       THEN \* line 246 is in no try block: switchCamera ends there
            /\ Ends(u, i)
            /\ sent' = <<>>
            /\ UNCHANGED <<streams, localStream, inCall, incomingCall,
                           peerConnections, pcs, inbox>>
       ELSE /\ AfterSetupMedia(u, i)
            /\ UNCHANGED <<streams, localStream>>

\* setupMedia: localVideoRef.current.play() settles (line 110); a rejection
\* is caught (lines 112-115) and setupMedia returns all the same.
\* switchCamera: the play() of line 255 settles.
PlaySettles(u, i) ==
    /\ Suspended(u, i, "play")
    /\ last' = [op |-> "play", by |-> u, fn |-> tasks[u][i].op]
    /\ AfterSetupMedia(u, i)
    /\ UNCHANGED <<Profile, joinedGroup, ringtone, streams, localStream>>

\* pc.createOffer() resolves; setLocalDescription(offer) is called
\* (lines 178-179, 215-216).
CreateOfferSettles(u, i) ==
    /\ Suspended(u, i, "createOffer")
    /\ pcs' = [pcs EXCEPT ![tasks[u][i].pc].local = "offer"]
    /\ Moves(u, i, [tasks[u][i] EXCEPT !.at = "setLocalDescription"])
    /\ sent' = <<>>
    /\ last' = [op |-> "createOffer", by |-> u, fn |-> tasks[u][i].op]
    /\ UNCHANGED <<Profile, joinedGroup, inCall, incomingCall, ringtone,
                   peerConnections, localStream, streams, inbox>>

\* pc.setRemoteDescription(offer) resolves; createAnswer is called
\* (lines 192-193, 84-85).
SetRemoteSettles(u, i) ==
    /\ Suspended(u, i, "setRemoteDescription")
    /\ Moves(u, i, [tasks[u][i] EXCEPT !.at = "createAnswer"])
    /\ sent' = <<>>
    /\ last' = [op |-> "setRemoteDescription", by |-> u, fn |-> tasks[u][i].op]
    /\ UNCHANGED <<Profile, joinedGroup, inCall, incomingCall, ringtone,
                   peerConnections, localStream, pcs, streams, inbox>>

\* pc.createAnswer() resolves; setLocalDescription(answer) is called
\* (lines 193-194, 85-86).
CreateAnswerSettles(u, i) ==
    /\ Suspended(u, i, "createAnswer")
    /\ pcs' = [pcs EXCEPT ![tasks[u][i].pc].local = "answer"]
    /\ Moves(u, i, [tasks[u][i] EXCEPT !.at = "setLocalDescription"])
    /\ sent' = <<>>
    /\ last' = [op |-> "createAnswer", by |-> u, fn |-> tasks[u][i].op]
    /\ UNCHANGED <<Profile, joinedGroup, inCall, incomingCall, ringtone,
                   peerConnections, localStream, streams, inbox>>

\* The connection starts gathering candidates once its local description
\* is set.
Gathering(id) == [pcs EXCEPT ![id].gathering = TRUE]

\* pc.setLocalDescription() resolves: the rest of the function runs.
SetLocalSettles(u, i) ==
    LET t == tasks[u][i] IN
    /\ Suspended(u, i, "setLocalDescription")
    /\ last' = [op |-> "setLocalDescription", by |-> u, fn |-> tasks[u][i].op]
    /\ UNCHANGED <<Profile, joinedGroup, ringtone, localStream, streams>>
    /\ CASE t.op = "startPrivateCall" ->
              \* lines 180-184
              /\ Emit(<<Msg("call_user", u, t.peer, t.pc, 0)>>)
              /\ inCall' = [inCall EXCEPT ![u] = TRUE]
              /\ pcs' = Gathering(t.pc)
              /\ Ends(u, i)
              /\ UNCHANGED <<incomingCall, peerConnections>>
         [] t.op = "answerCall" ->
              \* lines 195-197
              /\ Emit(<<Msg("answer_call", u, t.peer, t.pc, 0)>>)
              /\ incomingCall' = [incomingCall EXCEPT ![u] = NoCall]
              /\ inCall' = [inCall EXCEPT ![u] = TRUE]
              /\ pcs' = Gathering(t.pc)
              /\ Ends(u, i)
              /\ UNCHANGED peerConnections
         [] t.op = "group_call_offer" ->
              \* lines 87, 443
              /\ Emit(<<Msg("group_call_answer", u, GroupAnswerTo(t), t.pc, 0)>>)
              /\ pcs' = Gathering(t.pc)
              /\ Ends(u, i)
              /\ UNCHANGED <<inCall, incomingCall, peerConnections>>
         [] t.op = "startGroupCall" ->
              \* lines 217-221, then the next turn of the loop
              /\ Emit(<<Msg("group_call_offer", u, t.peer, t.pc, 0)>>)
              /\ UNCHANGED <<inCall, incomingCall>>
              /\ IF t.rest = <<>>
                 THEN /\ Ends(u, i)
                      /\ pcs' = Gathering(t.pc)
                      /\ UNCHANGED peerConnections
                 ELSE /\ pcs' = Append(Gathering(t.pc),
                                       NewPc(u, Head(t.rest), "group"))
                      /\ peerConnections' =
                             [peerConnections EXCEPT ![u][Head(t.rest)] = NewPcId]
                      /\ Moves(u, i, [t EXCEPT !.at = "createOffer",
                                               !.pc = NewPcId,
                                               !.peer = Head(t.rest),
                                               !.rest = Tail(t.rest)])

-----------------------------------------------------------------------------
\* Events of the peer connections.

\* pc.onicecandidate (lines 136-143): the candidate goes to the peer the
\* connection was created for.
IceCandidate(id) ==
    /\ id \in 1..Len(pcs)
    /\ pcs[id].gathering
    /\ ~pcs[id].closed
    /\ pcs[id].gathered < MaxCands
    /\ pcs' = [pcs EXCEPT ![id].gathered = @ + 1]
    /\ Emit(<<Msg("ice_candidate", pcs[id].owner, pcs[id].peer, id,
                  pcs[id].gathered + 1)>>)
    /\ last' = [op |-> "onicecandidate", by |-> pcs[id].owner]
    /\ UNCHANGED <<Profile, joinedGroup, inCall, incomingCall, ringtone,
                   peerConnections, localStream, streams, tasks>>

\* The connection fails (connectionState "failed").  createPeerConnection
\* registers ontrack and onicecandidate only (lines 126-143): no handler
\* of the component runs.
LinkFails(id) ==
    /\ id \in 1..Len(pcs)
    /\ ~pcs[id].closed
    /\ ~pcs[id].failed
    /\ pcs[id].gathering
    /\ pcs[id].remote # 0
    /\ pcs' = [pcs EXCEPT ![id].failed = TRUE]
    /\ sent' = <<>>
    /\ last' = [op |-> "linkFails", by |-> pcs[id].owner]
    /\ UNCHANGED <<Profile, joinedGroup, inCall, incomingCall, ringtone,
                   peerConnections, localStream, streams, tasks, inbox>>

-----------------------------------------------------------------------------
\* Socket handlers.

\* socket.on('call_user') (lines 55-59).
OnCallUser(u) ==
    LET m == Head(inbox[u]) IN
    /\ Takes(u, "call_user")
    /\ Taken(u)
    /\ incomingCall' = [incomingCall EXCEPT ![u] = [from |-> m.from, offer |-> m.desc]]
    /\ ringtone' = [ringtone EXCEPT ![u] = TRUE]
    /\ last' = [op |-> "call_user", by |-> u]
    /\ UNCHANGED <<Profile, joinedGroup, inCall, peerConnections, localStream,
                   pcs, streams, tasks>>

\* The handlers of answer_call and group_call_answer without their `if (pc)`:
\* a connection is made up for a sender that has none.
ApplyAnswerToNewLink(u, m) ==
    LET id == peerConnections[u][m.from] IN
    IF id # 0
    THEN pcs' = [pcs EXCEPT ![id] = SetRemoteAnswer(pcs[id], m.desc)]
    ELSE pcs' = Append(pcs, SetRemoteAnswer(NewPc(u, m.from, "private"), m.desc))

\* The handlers of answer_call and group_call_answer (lines 61-64, 90-93).
ApplyAnswer(u, m) ==
    LET id == peerConnections[u][m.from] IN
    IF id # 0
    THEN pcs' = [pcs EXCEPT ![id] = SetRemoteAnswer(pcs[id], m.desc)]
    ELSE UNCHANGED pcs

\* socket.on('answer_call') (lines 61-64).
OnAnswerCall(u) ==
    /\ Takes(u, "answer_call")
    /\ Taken(u)
    /\ ApplyAnswer(u, Head(inbox[u]))
    /\ last' = [op |-> "answer_call", by |-> u]
    /\ UNCHANGED <<Profile, joinedGroup, inCall, incomingCall, ringtone,
                   peerConnections, localStream, streams, tasks>>

\* socket.on('decline_call') (lines 66-69).
OnDeclineCall(u) ==
    /\ Takes(u, "decline_call")
    /\ Taken(u)
    /\ EndCallCleanup(u)
    /\ last' = [op |-> "decline_call", by |-> u]
    /\ UNCHANGED <<Profile, joinedGroup, ringtone>>

\* socket.on('ice_candidate') (lines 71-74).
OnIceCandidate(u) ==
    LET m == Head(inbox[u])
        id == peerConnections[u][m.from]
    IN
    /\ Takes(u, "ice_candidate")
    /\ Taken(u)
    /\ IF id # 0
       THEN pcs' = [pcs EXCEPT ![id] =
                        AddIceCandidate(pcs[id], [pc |-> m.desc, n |-> m.cand])]
       ELSE UNCHANGED pcs
    /\ last' = [op |-> "ice_candidate", by |-> u]
    /\ UNCHANGED <<Profile, joinedGroup, inCall, incomingCall, ringtone,
                   peerConnections, localStream, streams, tasks>>

\* socket.on('end_call') (lines 76-78).
OnEndCall(u) ==
    /\ Takes(u, "end_call")
    /\ Taken(u)
    /\ EndCallCleanup(u)
    /\ last' = [op |-> "end_call", by |-> u]
    /\ UNCHANGED <<Profile, joinedGroup, ringtone>>

\* socket.on('group_call_offer') up to its first await (lines 81-82).
OnGroupCallOffer(u) ==
    LET m == Head(inbox[u]) IN
    /\ Takes(u, "group_call_offer")
    /\ Taken(u)
    /\ Room(u, 1)
    /\ Starts(u, Task("group_call_offer", "getUserMedia", 0, m.from, m.desc,
                      m.to, <<>>))
    /\ last' = [op |-> "group_call_offer", by |-> u]
    /\ UNCHANGED <<Profile, joinedGroup, inCall, incomingCall, ringtone,
                   peerConnections, localStream, pcs, streams>>

\* socket.on('group_call_answer') (lines 90-93).
OnGroupCallAnswer(u) ==
    /\ Takes(u, "group_call_answer")
    /\ Taken(u)
    /\ ApplyAnswer(u, Head(inbox[u]))
    /\ last' = [op |-> "group_call_answer", by |-> u]
    /\ UNCHANGED <<Profile, joinedGroup, inCall, incomingCall, ringtone,
                   peerConnections, localStream, streams, tasks>>

-----------------------------------------------------------------------------
\* The server delivers again an answer_call the user has applied already
\* (the channel is at-least-once): the handler of lines 61-64 runs again.
RedeliverAnswer(u) ==
    \E id, d \in 1..Len(pcs) :
        /\ registered[u]
        /\ pcs[id].owner = u
        /\ pcs[id].remote = d
        /\ pcs[d].local = "answer"
        /\ pcs[d].kind = "private"
        /\ ApplyAnswer(u, Msg("answer_call", pcs[d].owner, u, d, 0))
        /\ sent' = <<>>
        /\ last' = [op |-> "answer_call again", by |-> u]
        /\ UNCHANGED <<Profile, joinedGroup, inCall, incomingCall, ringtone,
                       peerConnections, localStream, streams, tasks, inbox>>

-----------------------------------------------------------------------------
\* The socket of u loses its connection to the server: the events on their
\* way to u are lost.  The component registers no handler for 'disconnect'
\* (lines 45-98), so none of its code runs.
Disconnect(u) ==
    /\ registered[u]
    /\ inbox' = [inbox EXCEPT ![u] = <<>>]
    /\ sent' = <<>>
    /\ last' = [op |-> "disconnect", by |-> u]
    /\ UNCHANGED <<Profile, joinedGroup, inCall, incomingCall, ringtone,
                   peerConnections, localStream, pcs, streams, tasks>>

-----------------------------------------------------------------------------
\* The awaited promise of a suspended function settles.
Resume ==
    \/ \E u \in Users, i \in 1..MaxTasks : GetUserMediaSettles(u, i)
    \/ \E u \in Users, i \in 1..MaxTasks : PlaySettles(u, i)
    \/ \E u \in Users, i \in 1..MaxTasks : CreateOfferSettles(u, i)
    \/ \E u \in Users, i \in 1..MaxTasks : SetRemoteSettles(u, i)
    \/ \E u \in Users, i \in 1..MaxTasks : CreateAnswerSettles(u, i)
    \/ \E u \in Users, i \in 1..MaxTasks : SetLocalSettles(u, i)

\* A private call: its commands and its events.
PrivateCall ==
    \/ \E u \in Users, target \in Users : StartPrivateCall(u, target)
    \/ \E u \in Users : AnswerCall(u)
    \/ \E u \in Users : DeclineCall(u)
    \/ \E u \in Users : OnCallUser(u)
    \/ \E u \in Users : OnAnswerCall(u)
    \/ \E u \in Users : OnDeclineCall(u)

\* A group call: its commands and its events.
GroupCall ==
    \/ \E u \in Users : StartGroupCall(u)
    \/ \E u \in Users : OnGroupCallOffer(u)
    \/ \E u \in Users : OnGroupCallAnswer(u)

\* The end of a call.
Ending ==
    \/ \E u \in Users : EndCall(u)
    \/ \E u \in Users : OnEndCall(u)

\* The exchange of candidates.
Candidates ==
    \/ \E id \in 1..Len(pcs) : IceCandidate(id)
    \/ \E u \in Users : OnIceCandidate(u)

\* Private calls between A and B.
Next == PrivateCall \/ Ending \/ Resume

Spec == Init /\ [][Next]_vars

\* Private calls between A and B, with the candidates of the connections.
InitIce ==
    /\ variant \in {1, 2}
    /\ mediaAllowed = [u \in Users |-> TRUE]
    /\ Start({"A", "B"}, {}, IcePcs)

NextIce == Next \/ Candidates

SpecIce == InitIce /\ [][NextIce]_vars

\* Private calls between A and B over a channel that delivers again.
NextRedeliver == Next \/ \E u \in Users : RedeliverAnswer(u)

SpecRedeliver == Init /\ [][NextRedeliver]_vars

\* Group calls among A, B and C; A and B have joined group G.
InitGroup ==
    /\ variant \in {1, 2}
    /\ mediaAllowed = [u \in Users |-> TRUE]
    /\ Start(Users, {"A", "B"}, GroupPcs)

NextGroup ==
    \/ GroupCall
    \/ Ending
    \/ Resume
    \/ \E id \in 1..Len(pcs) : LinkFails(id)

SpecGroup == InitGroup /\ [][NextGroup]_vars

\* Private calls between A and B; the browser of A denies the capture.
InitDenied ==
    /\ variant \in {1, 2}
    /\ mediaAllowed = [u \in Users |-> u # "A"]
    /\ Start({"A", "B"}, {}, PairPcs)

SpecDenied == InitDenied /\ [][Next]_vars

\* Private and group calls started among A, B and C, none of them ended.
InitMixed ==
    /\ variant \in {1, 2}
    /\ mediaAllowed = [u \in Users |-> TRUE]
    /\ Start(Users, {"A", "B"}, MixedPcs)

NextMixed ==
    \/ \E u \in Users, target \in Users : StartPrivateCall(u, target)
    \/ \E u \in Users : OnCallUser(u)
    \/ GroupCall
    \/ Resume

SpecMixed == InitMixed /\ [][NextMixed]_vars

\* Private and group calls between A and B, both in group G, with the
\* candidates of the connections.
InitLate ==
    /\ variant \in {1, 2}
    /\ mediaAllowed = [u \in Users |-> TRUE]
    /\ Start({"A", "B"}, {"A", "B"}, LatePcs)

NextLate == PrivateCall \/ GroupCall \/ Ending \/ Candidates \/ Resume

SpecLate == InitLate /\ [][NextLate]_vars

\* What runs without the user: the socket handlers of a private call and of
\* its end, and the resumptions of the async functions.
Handlers ==
    \/ \E u \in Users : OnCallUser(u)
    \/ \E u \in Users : OnAnswerCall(u)
    \/ \E u \in Users : OnDeclineCall(u)
    \/ \E u \in Users : OnEndCall(u)

\* Private calls between A and B.  An event that has arrived is handled and
\* an awaited promise settles; the user may never click again.  The component
\* sets no timer, so no other step is ever due.
InitRinging ==
    /\ variant \in {1, 2}
    /\ mediaAllowed = [u \in Users |-> TRUE]
    /\ Start({"A", "B"}, {}, RingPcs)

SpecRinging ==
    InitRinging /\ [][Next]_vars /\ WF_vars(Handlers) /\ WF_vars(Resume)

\* Private calls between A and B over a channel that can be lost.
InitLost ==
    /\ variant \in {1, 2}
    /\ mediaAllowed = [u \in Users |-> TRUE]
    /\ Start({"A", "B"}, {}, LostPcs)

NextLost == Next \/ \E u \in Users : Disconnect(u)

SpecLost == InitLost /\ [][NextLost]_vars

\* Private calls between A and B in which the camera is switched.
InitCamera ==
    /\ variant \in {1, 2}
    /\ mediaAllowed = [u \in Users |-> TRUE]
    /\ Start({"A", "B"}, {}, CameraPcs)

NextCamera == Next \/ \E u \in Users : SwitchCamera(u)

SpecCamera == InitCamera /\ [][NextCamera]_vars

-----------------------------------------------------------------------------
\* Properties.

Links(u) == {peerConnections[u][p] : p \in Users} \ {0}

ResumeOps == {"getUserMedia", "play", "createOffer", "setRemoteDescription",
              "createAnswer", "setLocalDescription"}

\* C1: a user who is in a call (inCall, so no endCallCleanup has run since
\* the call was set up) emits no further call_user offer: a second
\* StartPrivateCall is rejected and sends nothing.
C1_SecondCallRejected ==
    [][(last'.op = "setLocalDescription" /\ \E k \in 1..Len(sent') :
            sent'[k].ev = "call_user")
       => ~inCall[last'.by]]_vars

\* The candidates of connection x the handler of user u has received: what
\* x has emitted and is no longer on its way.
Heard(x, u) ==
    pcs[x].gathered
    - Len(SelectSeq(inbox[u], LAMBDA m : m.ev = "ice_candidate" /\ m.desc = x))

\* C2: a live connection that has the description of connection x applied
\* has had every candidate of x that reached its user applied, in the order
\* of arrival, also those that arrived before the description was set.
C2_CandidatesKept ==
    \A y \in 1..Len(pcs) :
        (~pcs[y].closed /\ pcs[y].remote # 0)
        => LET x == pcs[y].remote IN
           SelectSeq(pcs[y].candidates, LAMBDA c : c.pc = x)
           = [n \in 1..Heard(x, pcs[y].owner) |-> [pc |-> x, n |-> n]]

\* u holds an open connection to v whose offer it has sent.
SentOffer(u, v) ==
    \E x \in 1..Len(pcs) :
        /\ pcs[x].owner = u /\ pcs[x].peer = v /\ pcs[x].kind = "private"
        /\ ~pcs[x].closed /\ pcs[x].local = "offer" /\ pcs[x].gathering

\* u holds an offer of v: waiting for the user's answer, or answered on an
\* open connection.
ReceivedOffer(u, v) ==
    \/ incomingCall[u].from = v
    \/ \E y \in 1..Len(pcs) :
        /\ pcs[y].owner = u /\ pcs[y].peer = v /\ pcs[y].kind = "private"
        /\ ~pcs[y].closed /\ pcs[y].local # "offer" /\ pcs[y].remote # 0

\* C3: towards one peer a user is the caller or the callee, never both: it
\* never holds at once a link whose initial offer it sent and an initial
\* offer received from that peer.
C3_OneRolePerLink ==
    \A u, v \in Users : ~(SentOffer(u, v) /\ ReceivedOffer(u, v))

\* The step resumes task i of u.
Resumed(u, i) ==
    /\ last'.by = u
    /\ last'.op \in ResumeOps
    /\ i \in 1..Len(tasks[u])
    /\ \/ tasks'[u] = RemoveAt(tasks[u], i)
       \/ /\ Len(tasks'[u]) = Len(tasks[u])
          /\ tasks'[u][i] # tasks[u][i]

\* C4: an operation that was suspended when endCallCleanup ran has its
\* result dropped when it resumes: no peer connection is added, nothing is
\* emitted and inCall is not set.
C4_TornResultDropped ==
    [][\A u \in Users, i \in 1..MaxTasks :
          (Resumed(u, i) /\ tasks[u][i].torn)
          => /\ peerConnections'[u] = peerConnections[u]
             /\ inCall'[u] = inCall[u]
             /\ sent' = <<>>]_vars

\* C5: an answer_call delivered again after it was applied changes nothing.
C5_RedeliveryNoOp ==
    [][last'.op = "answer_call again"
       => /\ pcs' = pcs
          /\ peerConnections' = peerConnections
          /\ inCall' = inCall
          /\ sent' = <<>>]_vars

\* Connection x has applied an answer made for its own offer.
Connected(x) ==
    /\ pcs[x].remote # 0
    /\ pcs[pcs[x].remote].remote = x

\* declineCall has run: the incoming call is cleared, the ringtone stopped,
\* and one decline_call went to the caller.
DeclineIssued(u) ==
    /\ incomingCall'[u] = NoCall
    /\ ~ringtone'[u]
    /\ sent' = <<Msg("decline_call", u, incomingCall[u].from, 0, 0)>>

\* The handler of decline_call has run: every link is closed and dropped,
\* the capture released, and the user is no longer in a call.
DeclineHandled(u) ==
    /\ \A x \in Links(u) : pcs'[x].closed
    /\ peerConnections'[u] = NoLinks
    /\ localStream[u] # 0 => streams'[localStream[u]].stopped
    /\ localStream'[u] = 0
    /\ ~inCall'[u]

CallTornDown(u) ==
    /\ \A x \in Links(u) : pcs'[x].closed
    /\ peerConnections'[u] = NoLinks
    /\ localStream[u] # 0 => streams'[localStream[u]].stopped
    /\ localStream'[u] = 0
    /\ ~inCall'[u]

\* C7 as stated: ending a call with k >= 1 remaining links closes them,
\* releases the capture and emits k end_call events, one for each remaining
\* remote.
C7_OneEndCallPerRemote ==
    [][(last'.op = "endCall" /\ Links(last'.by) # {})
       => /\ CallTornDown(last'.by)
          /\ Cardinality({k \in 1..Len(sent') : sent'[k].ev = "end_call"})
             = Cardinality(Links(last'.by))]_vars

\* C7 as amended: ending a call closes its links, releases the capture and
\* emits exactly one end_call, which names no addressee, however many
\* remotes remain.
C7_OneEndCall ==
    [][last'.op = "endCall"
       => /\ CallTornDown(last'.by)
          /\ sent' = <<Msg("end_call", last'.by, "", 0, 0)>>]_vars

\* A has ended a group call in which both of its links had an answer
\* applied.
C7_Witness ==
    /\ last.op = "endCall"
    /\ Len(sent) = 1
    /\ \E x, y \in 1..Len(pcs) :
        /\ x # y
        /\ \A z \in {x, y} :
            /\ pcs[z].owner = last.by /\ pcs[z].kind = "group"
            /\ pcs[z].closed /\ pcs[z].local = "offer" /\ pcs[z].remote # 0
            /\ pcs[z].tracks # 0 /\ streams[pcs[z].tracks].stopped

\* C8: when a link of a call fails, exactly that link leaves
\* peerConnections; the other links and the call stay as they are.
C8_FailedLinkRemoved ==
    [][last'.op = "linkFails"
       => \E x \in 1..Len(pcs) :
            /\ pcs'[x].failed /\ ~pcs[x].failed
            /\ peerConnections'[pcs[x].owner] =
                 [p \in Users |->
                    IF peerConnections[pcs[x].owner][p] = x THEN 0
                    ELSE peerConnections[pcs[x].owner][p]]
            /\ inCall' = inCall]_vars

CallEvents == {"call_user", "answer_call", "group_call_offer",
               "group_call_answer"}

\* C9: a user whose capture is denied sets up no call: it creates no peer
\* connection, emits no offer or answer and is never in a call.
C9_DeniedCaptureAborts ==
    \A u \in Users :
        ~mediaAllowed[u]
        => /\ ~inCall[u]
           /\ \A x \in 1..Len(pcs) : pcs[x].owner # u
           /\ \A k \in 1..Len(sent) :
                 sent[k].from = u => sent[k].ev \notin CallEvents

\* C10: peerConnections of a user never holds a link of a private call and
\* a link of a group call at once.
C10_PrivateOrGroup ==
    \A u \in Users :
        ~\E x, y \in Links(u) :
            pcs[x].kind = "private" /\ pcs[y].kind = "group"

Continuations == {"answer_call", "ice_candidate", "group_call_answer"}

\* What a call handler can write, the events in flight apart.
CallState == <<joinedGroup, inCall, incomingCall, ringtone, peerConnections,
               localStream, pcs, streams, tasks>>

\* C11: an answer_call, ice_candidate or group_call_answer whose sender has
\* no link in peerConnections of the receiver (none was created, or
\* endCallCleanup has dropped it) is dropped: the handler changes no state,
\* creates no connection and emits nothing.
C11_LateEventDropped ==
    [][\A u \in Users :
          (/\ last'.by = u
           /\ last'.op \in Continuations
           /\ inbox[u] # <<>>
           /\ peerConnections[u][Head(inbox[u]).from] = 0)
          => /\ UNCHANGED CallState
             /\ sent' = <<>>
             /\ inbox' = [inbox EXCEPT ![u] = Tail(@)]]_vars

\* An answer has reached a user who has torn its call down and holds no
\* link.
C11_Witness ==
    /\ last.op \in {"answer_call", "group_call_answer"}
    /\ peerConnections[last.by] = NoLinks
    /\ \E x \in 1..Len(pcs) :
        /\ pcs[x].owner = last.by
        /\ pcs[x].closed
        /\ pcs[x].local = "offer"
        /\ pcs[x].remote = 0

\* u has sent the offer of a private call that has been neither answered
\* nor torn down.
RingingOut(u) ==
    \E x \in Links(u) :
        /\ pcs[x].kind = "private"
        /\ pcs[x].local = "offer"
        /\ pcs[x].gathering
        /\ pcs[x].remote = 0

\* u has an incoming private call it has neither answered nor declined.
RingingIn(u) == incomingCall[u] # NoCall

\* C12: a ringing private call ends by itself: the caller's link is closed,
\* its capture released and inCall reset, and the callee's incomingCall is
\* cleared, even if no user ever acts.
C12_RingingTimesOut ==
    \A u \in Users :
        /\ RingingIn(u) ~> ~RingingIn(u)
        /\ RingingOut(u) ~> (Links(u) = {} /\ localStream[u] = 0 /\ ~inCall[u])

\* C13: when the signalling channel of a user with a call is lost, the call
\* ends: its peer connections are closed, peerConnections is emptied, the
\* capture is released, and inCall and incomingCall are reset.
C13_DisconnectEndsCalls ==
    [][(last'.op = "disconnect" /\ Links(last'.by) # {})
       => /\ CallTornDown(last'.by)
          /\ incomingCall'[last'.by] = NoCall]_vars

CleanupOps == {"endCall", "end_call", "decline_call"}

\* C14: once endCallCleanup has run and no async function of the user is in
\* flight, every peer connection the user has created is closed and every
\* stream it has acquired is stopped, also those that a later
\* createPeerConnection or setupMedia had replaced.
C14_AllReleased ==
    (last.op \in CleanupOps /\ tasks[last.by] = <<>>)
    => /\ \A x \in 1..Len(pcs) : pcs[x].owner = last.by => pcs[x].closed
       /\ \A z \in 1..Len(streams) :
             streams[z].owner = last.by => streams[z].stopped

\* The links of u's group call to the members other than v.
OtherGroupLinks(u, v) ==
    {x \in Links(u) : pcs[x].kind = "group" /\ pcs[x].peer # v}

\* C15: an end_call received from one member of a group call leaves the
\* local session running: the links to the other members stay open and in
\* peerConnections, the capture stays live and inCall stays as it is.
C15_RemoteEndKeepsGroup ==
    [][\A u \in Users :
          (/\ last'.by = u
           /\ last'.op = "end_call"
           /\ inbox[u] # <<>>
           /\ OtherGroupLinks(u, Head(inbox[u]).from) # {})
          => /\ \A x \in OtherGroupLinks(u, Head(inbox[u]).from) :
                   /\ ~pcs'[x].closed
                   /\ peerConnections'[u][pcs[x].peer] = x
             /\ localStream'[u] = localStream[u]
             /\ inCall'[u] = inCall[u]]_vars

\* C16: startGroupCall offers to the members of the caller's group only: a
\* group_call_offer, and the link created for it, goes to a user other than
\* the caller who has joined the same group.
C16_OffersToMembersOnly ==
    /\ \A k \in 1..Len(sent) :
          sent[k].ev = "group_call_offer"
          => /\ sent[k].to # sent[k].from
             /\ joinedGroup[sent[k].to] = joinedGroup[sent[k].from]
    /\ \A x \in 1..Len(pcs) :
          (pcs[x].kind = "group" /\ pcs[x].local = "offer")
          => /\ pcs[x].peer # pcs[x].owner
             /\ joinedGroup[pcs[x].peer] = joinedGroup[pcs[x].owner]

\* C17: the group_call_answer a receiver emits comes from a link keyed by
\* the sender of the offer and is addressed to that sender, the owner of the
\* connection the offer was made on.
C17_AnswerToOfferer ==
    \A k \in 1..Len(sent) :
        sent[k].ev = "group_call_answer"
        => LET y == sent[k].desc IN
           /\ pcs[y].owner = sent[k].from
           /\ pcs[y].remote # 0
           /\ pcs[y].peer = pcs[pcs[y].remote].owner
           /\ sent[k].to = pcs[pcs[y].remote].owner

\* The step resumes switchCamera, suspended as task i of u.
SwitchResumed(u, i) == Resumed(u, i) /\ tasks[u][i].op = "switchCamera"

\* The step runs the replaceTrack loop of switchCamera.
SwitchCompleted(u, i) ==
    /\ SwitchResumed(u, i)
    /\ tasks[u][i].at = "play"
    /\ ~tasks[u][i].torn

\* C18: no step of switchCamera changes inCall, incomingCall or
\* peerConnections, emits an event, or touches a closed connection, also
\* when endCallCleanup has run while it was suspended; when it completes,
\* every link that sends the capture sends the new stream.
C18_SwitchCameraFrame ==
    [][\A u \in Users :
          /\ ((last'.op = "switchCamera" /\ last'.by = u)
               \/ \E i \in 1..MaxTasks : SwitchResumed(u, i))
             => /\ inCall' = inCall
                /\ incomingCall' = incomingCall
                /\ peerConnections' = peerConnections
                /\ sent' = <<>>
                /\ Len(pcs') = Len(pcs)
                /\ \A x \in 1..Len(pcs) :
                      (pcs[x].closed \/ x \notin Links(u)) => pcs'[x] = pcs[x]
          /\ \A i \in 1..MaxTasks :
                SwitchCompleted(u, i)
                => \A x \in Links(u) :
                      pcs[x].tracks # 0 => pcs'[x].tracks = tasks[u][i].stream]_vars

\* switchCamera has completed on a link that has its answer applied: the
\* link sends the new stream, the stream it was created with is stopped.
C18_Witness ==
    /\ last.op = "play"
    /\ last.fn = "switchCamera"
    /\ \E x \in Links(last.by) :
        /\ ~pcs[x].closed
        /\ pcs[x].local = "offer"
        /\ pcs[x].remote # 0
        /\ pcs[x].tracks = localStream[last.by]
        /\ ~streams[pcs[x].tracks].stopped
        /\ \E z \in 1..Len(streams) :
              z # pcs[x].tracks /\ streams[z].owner = last.by /\ streams[z].stopped

\* No call is active for u and none of its functions is in flight.
Idle(u) ==
    /\ ~inCall[u]
    /\ incomingCall[u] = NoCall
    /\ peerConnections[u] = NoLinks
    /\ tasks[u] = <<>>

\* C19: a user with no active call and no function in flight holds no
\* capture: localStream is null.
C19_IdleHoldsNoCapture ==
    \A u \in Users : Idle(u) => localStream[u] = 0

\* C20: a user who holds a link while none of its functions is in flight
\* is in a call: inCall is true, so End Call and Switch Camera are rendered.
C20_LinkedMeansInCall ==
    \A u \in Users :
        (Links(u) # {} /\ tasks[u] = <<>>) => inCall[u]

\* C21: the ringtone plays only while an incoming call is pending, however
\* incomingCall was cleared.
C21_RingtoneOnlyWhileRinging ==
    \A u \in Users : ringtone[u] => incomingCall[u] # NoCall

====
